---- MODULE Spec2Model ----
(***************************************************************************)
(* json_to_csv of solution.py: read a JSON file, build a pandas DataFrame  *)
(* from its root (dict -> DataFrame.from_dict(orient='index'), list ->     *)
(* DataFrame(data)), write it with to_csv(index=True), return a bool.      *)
(*                                                                         *)
(* A JSON value is a record [t, s, items]: t is its kind, s its text for   *)
(* a scalar, items the <<key, value>> pairs of an object in insertion      *)
(* order or the elements of an array.  A CSV file is a sequence of lines,  *)
(* a line a sequence of fields: the fields are the values handed to the    *)
(* csv writer, before its quoting.                                         *)
(***************************************************************************)
EXTENDS Integers, Sequences, FiniteSets, TLC

VARIABLES pc, fs, fs0, json_file_path, csv_file_path, opened, data, df, err, result

vars == <<pc, fs, fs0, json_file_path, csv_file_path, opened, data, df, err, result>>

\* ------------------------------------------------------------- bounds
MaxRows == 3

\* ------------------------------------------------------------- JSON values
JStr(s) == [t |-> "str", s |-> s, items |-> <<>>]
JInt(s) == [t |-> "int", s |-> s, items |-> <<>>]
JNull == [t |-> "null", s |-> "", items |-> <<>>]
JObj(pairs) == [t |-> "obj", s |-> "", items |-> pairs]
JArr(elems) == [t |-> "arr", s |-> "", items |-> elems]
\* cells pandas makes: a missing entry, and an int moved to a float64 column
NaN == [t |-> "nan", s |-> "", items |-> <<>>]
Float(s) == [t |-> "float", s |-> s \o ".0", items |-> <<>>]

FieldKeys == {"x", "y"}
ValuesOf(k) == IF k = "x" THEN {JStr("s"), JInt("1")} ELSE {JStr("s")}
AllValues == UNION {ValuesOf(k) : k \in FieldKeys}

KeyOrders ==
  {ks \in UNION {[1..n -> FieldKeys] : n \in 0..Cardinality(FieldKeys)} :
     \A i, j \in 1..Len(ks) : i # j => ks[i] # ks[j]}

Objects ==
  UNION {{JObj([i \in 1..Len(ks) |-> <<ks[i], vs[i]>>]) :
            vs \in {f \in [1..Len(ks) -> AllValues] :
                      \A i \in 1..Len(ks) : f[i] \in ValuesOf(ks[i])}} :
         ks \in KeyOrders}

Scalars == {JInt("1")}
Elements == Objects \cup Scalars

ElementSeqs == UNION {[1..n -> Elements] : n \in 0..MaxRows}

Digits == <<"0", "1", "2", "3", "4", "5", "6", "7", "8", "9">>

RECURSIVE Str(_)
Str(n) == IF n < 10 THEN Digits[n + 1] ELSE Str(n \div 10) \o Digits[(n % 10) + 1]

OuterKey(i) == "k" \o Str(i)

ArrayRoots == {JArr(es) : es \in ElementSeqs}
ObjectRoots == {JObj([i \in 1..Len(es) |-> <<OuterKey(i), es[i]>>]) : es \in ElementSeqs}
ScalarRoots == {JInt("1"), JStr("s"), JNull}
Roots == ArrayRoots \cup ObjectRoots \cup ScalarRoots

\* ------------------------------------------------------------- files
Absent == [kind |-> "absent", root |-> JNull, lines |-> <<>>]
JsonFile(root) == [kind |-> "json", root |-> root, lines |-> <<>>]
Garbage == [kind |-> "garbage", root |-> JNull, lines |-> <<>>]
CsvFile(lines) == [kind |-> "csv", root |-> JNull, lines |-> lines]
OldCsv == CsvFile(<<<<"old">>>>)

InputPath == [parent |-> "dataset", stem |-> "in", suffix |-> ".json"]
PathStr(p) == p.parent \o "/" \o p.stem \o p.suffix
NoPath == "None"
GivenCsv == "out.csv"

Paths == {PathStr(InputPath), GivenCsv, InputPath.stem \o "_converted.csv"}

\* ------------------------------------------------------------- Python values
PyBool(b) == [type |-> "bool", n |-> IF b THEN 1 ELSE 0]
PyNone == [type |-> "none", n |-> 0]

\* mutant: the existence check always passes
PathExistsAlways(files, p) == TRUE

\* os.path.exists
PathExists(files, p) == files[p].kind # "absent"

\* mutant: a lenient parser that never raises
JsonDecodeErrorNever(file) == FALSE

\* json.load: raises JSONDecodeError on text that is not JSON
JsonDecodeError(file) == file.kind # "json"
JsonLoad(file) == file.root

isinstance_dict(v) == v.t = "obj"
\* mutant: the list branch taken as a plain else
isinstance_list_else(v) == v.t # "obj"

isinstance_list(v) == v.t = "arr"

\* ------------------------------------------------------------- dict helpers
ObjKeys(o) == [i \in 1..Len(o.items) |-> o.items[i][1]]
ObjValues(o) == [i \in 1..Len(o.items) |-> o.items[i][2]]
HasKey(o, k) == \E i \in 1..Len(o.items) : o.items[i][1] = k
Get(o, k) == o.items[CHOOSE i \in 1..Len(o.items) : o.items[i][1] = k][2]

\* ------------------------------------------------------------- pandas
\* lib.fast_unique_multiple_list_gen(gen, sort=False): the labels of the lists
\* in the order they are first met
RECURSIVE AppendUnseen(_, _)
AppendUnseen(seen, ks) ==
  IF ks = <<>> THEN seen
  ELSE AppendUnseen(IF \E i \in 1..Len(seen) : seen[i] = Head(ks)
                      THEN seen ELSE Append(seen, Head(ks)),
                    Tail(ks))

\* mutant: the lists are scanned from the last to the first
RECURSIVE fast_unique_multiple_rev(_, _)
fast_unique_multiple_rev(lists, seen) ==
  IF lists = <<>> THEN seen
  ELSE fast_unique_multiple_rev(SubSeq(lists, 1, Len(lists) - 1),
                                AppendUnseen(seen, lists[Len(lists)]))

RECURSIVE fast_unique_multiple(_, _)
fast_unique_multiple(lists, seen) ==
  IF lists = <<>> THEN seen
  ELSE fast_unique_multiple(Tail(lists), AppendUnseen(seen, Head(lists)))

\* dtype inference of one column: ints beside a missing entry become float64
SanitizeColumn(col) ==
  IF /\ \A i \in 1..Len(col) : col[i].t \in {"int", "nan"}
     /\ \E i \in 1..Len(col) : col[i].t = "nan"
     /\ \E i \in 1..Len(col) : col[i].t = "int"
    THEN [i \in 1..Len(col) |-> IF col[i].t = "int" THEN Float(col[i].s) ELSE NaN]
    ELSE col

\* a frame from its labels and the raw cells raw[i][j] of row i, column j
MakeFrame(index, columns, raw) ==
  LET col(j) == SanitizeColumn([i \in 1..Len(index) |-> raw[i][j]])
  IN  [index |-> index, columns |-> columns,
       cells |-> [i \in 1..Len(index) |-> [j \in 1..Len(columns) |-> col(j)[i]]]]

EmptyFrame == [index |-> <<>>, columns |-> <<>>, cells |-> <<>>]

RangeIndex(n) == [i \in 1..n |-> Str(i - 1)]

\* mutant: the columns are the keys of the first record only
ListOfDictFrameFirstRow(rows, index) ==
  LET columns == ObjKeys(rows[1])
      raw == [i \in 1..Len(rows) |-> [j \in 1..Len(columns) |->
                IF HasKey(rows[i], columns[j]) THEN Get(rows[i], columns[j]) ELSE NaN]]
  IN  MakeFrame(index, columns, raw)

\* _list_of_dict_to_arrays: columns are the keys in first-seen order
ListOfDictFrame(rows, index) ==
  LET columns == fast_unique_multiple([i \in 1..Len(rows) |-> ObjKeys(rows[i])], <<>>)
      raw == [i \in 1..Len(rows) |-> [j \in 1..Len(columns) |->
                IF HasKey(rows[i], columns[j]) THEN Get(rows[i], columns[j]) ELSE NaN]]
  IN  MakeFrame(index, columns, raw)

\* ndarray_to_mgr on a flat list: one column labelled 0 holding the elements
NdarrayFrame(elems, index) ==
  MakeFrame(index, <<Str(0)>>, [i \in 1..Len(elems) |-> <<elems[i]>>])

\* pd.DataFrame(data, index=index) for a list: a list whose first element is a
\* dict is read as a list of dicts, and x.keys() raises on an element that is
\* not one
treat_as_nested(elems) == Len(elems) > 0 /\ elems[1].t = "obj"

DataFrameRaises(elems) ==
  treat_as_nested(elems) /\ \E i \in 1..Len(elems) : elems[i].t # "obj"

DataFrame(elems, index) ==
  IF Len(elems) = 0 THEN EmptyFrame
  ELSE IF treat_as_nested(elems) THEN ListOfDictFrame(elems, index)
  ELSE NdarrayFrame(elems, index)

\* _from_nested_dict: new_data[col][index] = v, for index, s in data.items(),
\* for col, v in s.items()
NestedPut(nd, col, index, v) ==
  IF \E j \in 1..Len(nd) : nd[j][1] = col
    THEN LET j == CHOOSE j \in 1..Len(nd) : nd[j][1] = col
         IN  [nd EXCEPT ![j] = <<col, Append(nd[j][2], <<index, v>>)>>]
    ELSE Append(nd, <<col, <<<<index, v>>>>>>)

RECURSIVE PutRow(_, _, _)
PutRow(nd, index, pairs) ==
  IF pairs = <<>> THEN nd
  ELSE PutRow(NestedPut(nd, pairs[1][1], index, pairs[1][2]), index, Tail(pairs))

RECURSIVE from_nested_dict(_, _)
from_nested_dict(nd, items) ==
  IF items = <<>> THEN nd
  ELSE from_nested_dict(PutRow(nd, items[1][1], items[1][2].items), Tail(items))

\* DataFrame(dict of dicts): the index is the union of the columns' keys in
\* first-seen order (_extract_index, union_indexes(sort=False))
DictOfDictFrame(nd) ==
  LET columns == [j \in 1..Len(nd) |-> nd[j][1]]
      index == fast_unique_multiple([j \in 1..Len(nd) |-> ObjKeys(JObj(nd[j][2]))], <<>>)
      raw == [i \in 1..Len(index) |-> [j \in 1..Len(columns) |->
                IF HasKey(JObj(nd[j][2]), index[i])
                  THEN Get(JObj(nd[j][2]), index[i]) ELSE NaN]]
  IN  MakeFrame(index, columns, raw)

\* pd.DataFrame.from_dict(data, orient='index')
from_dict_nested(d) == Len(d.items) > 0 /\ d.items[1][2].t = "obj"

from_dict_raises(d) ==
  from_dict_nested(d) /\ \E i \in 1..Len(d.items) : d.items[i][2].t # "obj"

from_dict(d) ==
  IF from_dict_nested(d) THEN DictOfDictFrame(from_nested_dict(<<>>, d.items))
  ELSE IF Len(d.items) > 0 THEN DataFrame(ObjValues(d), ObjKeys(d))
  ELSE EmptyFrame

\* repr() of a dict held in an object column
ReprScalar(v) == IF v.t = "str" THEN "'" \o v.s \o "'" ELSE v.s

RECURSIVE ReprItems(_)
ReprItems(items) ==
  IF items = <<>> THEN ""
  ELSE "'" \o items[1][1] \o "': " \o ReprScalar(items[1][2])
       \o (IF Len(items) > 1 THEN ", " ELSE "") \o ReprItems(Tail(items))

Repr(o) == "{" \o ReprItems(o.items) \o "}"

FormatCell(c) == IF c.t = "nan" THEN "" ELSE IF c.t = "obj" THEN Repr(c) ELSE c.s

\* df.to_csv(path, index=True): the header line, then one line per row
IndexColumn(label) == <<label>>

to_csv(frame) ==
  <<IndexColumn("") \o frame.columns>>
    \o [i \in 1..Len(frame.index) |->
          IndexColumn(frame.index[i])
            \o [j \in 1..Len(frame.columns) |-> FormatCell(frame.cells[i][j])]]

\* Path(json_file_path).stem + "_converted.csv"
DerivedCsvPath(p) == p.stem \o "_converted.csv"

\* ------------------------------------------------------------- json_to_csv
InputFiles == {Absent, Garbage} \cup {JsonFile(r) : r \in Roots}

Init ==
  /\ pc = "start"
  /\ json_file_path = InputPath
  /\ csv_file_path \in {NoPath, GivenCsv}
  /\ \E inp \in InputFiles, old \in {Absent, OldCsv} :
       fs = [p \in Paths |-> IF p = PathStr(InputPath) THEN inp
                             ELSE IF p = GivenCsv THEN old ELSE Absent]
  /\ fs0 = fs
  /\ opened = FALSE
  /\ data = JNull
  /\ df = EmptyFrame
  /\ err = ""
  /\ result = PyNone

\* mutant: the row count is returned
SuccessValueRowCount(frame) == [type |-> "int", n |-> Len(frame.index)]

\* return True
SuccessValue(frame) == PyBool(TRUE)

Return(e, r) == err' = e /\ result' = r /\ pc' = "done"

\* PASO 1
CheckExists ==
  /\ pc = "start"
  /\ IF ~PathExists(fs, PathStr(json_file_path))
       THEN Return("not_found", PyBool(FALSE))
       ELSE pc' = "read" /\ UNCHANGED <<err, result>>
  /\ UNCHANGED <<fs, fs0, json_file_path, csv_file_path, opened, data, df>>

\* PASO 2: open() raises FileNotFoundError on a missing file (except Exception),
\* json.load raises JSONDecodeError
ReadJson ==
  /\ pc = "read"
  /\ opened' = TRUE
  /\ LET file == fs[PathStr(json_file_path)]
     IN  IF file.kind = "absent"
           THEN Return("unexpected", PyBool(FALSE)) /\ UNCHANGED data
         ELSE IF JsonDecodeError(file)
           THEN Return("json_decode", PyBool(FALSE)) /\ UNCHANGED data
         ELSE data' = JsonLoad(file) /\ pc' = "convert" /\ UNCHANGED <<err, result>>
  /\ UNCHANGED <<fs, fs0, json_file_path, csv_file_path, df>>

\* PASO 3
Convert ==
  /\ pc = "convert"
  /\ IF isinstance_dict(data)
       THEN IF from_dict_raises(data)
              THEN Return("unexpected", PyBool(FALSE)) /\ UNCHANGED df
              ELSE df' = from_dict(data) /\ pc' = "name" /\ UNCHANGED <<err, result>>
     ELSE IF isinstance_list(data)
       THEN IF DataFrameRaises(data.items)
              THEN Return("unexpected", PyBool(FALSE)) /\ UNCHANGED df
              ELSE /\ df' = DataFrame(data.items, RangeIndex(Len(data.items)))
                   /\ pc' = "name" /\ UNCHANGED <<err, result>>
     ELSE Return("unsupported_format", PyBool(FALSE)) /\ UNCHANGED df
  /\ UNCHANGED <<fs, fs0, json_file_path, csv_file_path, opened, data>>

\* PASO 4
NameOutput ==
  /\ pc = "name"
  /\ csv_file_path' = IF csv_file_path = NoPath THEN DerivedCsvPath(json_file_path)
                      ELSE csv_file_path
  /\ pc' = "write"
  /\ UNCHANGED <<fs, fs0, json_file_path, opened, data, df, err, result>>

\* PASO 6: to_csv runs to its end
WriteCsv ==
  /\ pc = "write"
  /\ fs' = [fs EXCEPT ![csv_file_path] = CsvFile(to_csv(df))]
  /\ pc' = "check"
  /\ UNCHANGED <<fs0, json_file_path, csv_file_path, opened, data, df, err, result>>

\* PASO 6: to_csv cannot open the destination (permission denied)
WriteCsvDenied ==
  /\ pc = "write"
  /\ Return("unexpected", PyBool(FALSE))
  /\ UNCHANGED <<fs, fs0, json_file_path, csv_file_path, opened, data, df>>

\* PASO 6: to_csv opens the destination for writing and fails after n lines
\* (disk full)
WriteCsvInterrupted ==
  /\ pc = "write"
  /\ \E n \in 0..(Len(to_csv(df)) - 1) :
       fs' = [fs EXCEPT ![csv_file_path] = CsvFile(SubSeq(to_csv(df), 1, n))]
  /\ Return("unexpected", PyBool(FALSE))
  /\ UNCHANGED <<fs0, json_file_path, csv_file_path, opened, data, df>>

\* PASO 7
ValidateOutput ==
  /\ pc = "check"
  /\ IF PathExists(fs, csv_file_path)
       THEN Return("", SuccessValue(df))
       ELSE Return("not_created", PyBool(FALSE))
  /\ UNCHANGED <<fs, fs0, json_file_path, csv_file_path, opened, data, df>>

Next ==
  \/ CheckExists
  \/ ReadJson
  \/ Convert
  \/ NameOutput
  \/ WriteCsv
  \/ WriteCsvDenied
  \/ WriteCsvInterrupted
  \/ ValidateOutput

Spec == Init /\ [][Next]_vars

\* ------------------------------------------------------------- properties
Done == pc = "done"
Succeeded == Done /\ err = ""
InputFile == fs0[PathStr(json_file_path)]
Root == InputFile.root
DestPath == IF csv_file_path = NoPath THEN DerivedCsvPath(json_file_path) ELSE csv_file_path
Written == fs[DestPath].lines
DataLines == Tail(Written)

InputMissing == InputFile.kind = "absent"
InputMalformed == InputFile.kind = "garbage"
ScalarRoot == InputFile.kind = "json" /\ Root.t \notin {"obj", "arr"}
ArrayRoot == InputFile.kind = "json" /\ Root.t = "arr"
ObjectRoot == InputFile.kind = "json" /\ Root.t = "obj"
ArrayOfObjects == ArrayRoot /\ \A i \in 1..Len(Root.items) : Root.items[i].t = "obj"
ObjectOfObjects == ObjectRoot /\ \A i \in 1..Len(Root.items) : Root.items[i][2].t = "obj"
ArrayWithNonMapping == ArrayRoot /\ \E i \in 1..Len(Root.items) : Root.items[i].t # "obj"

\* the source rows with the label each is written under
SourceRows ==
  IF ObjectRoot THEN Root.items
  ELSE [i \in 1..Len(Root.items) |-> <<Str(i - 1), Root.items[i]>>]

AllKeys == UNION {{SourceRows[i][2].items[k][1] : k \in 1..Len(SourceRows[i][2].items)} :
                    i \in 1..Len(SourceRows)}

\* the place a key is first met: rows in order, then the keys of the row in order
FirstMet(c) ==
  LET i == CHOOSE i \in 1..Len(SourceRows) :
             /\ HasKey(SourceRows[i][2], c)
             /\ \A h \in 1..(i - 1) : ~HasKey(SourceRows[h][2], c)
      k == CHOOSE k \in 1..Len(SourceRows[i][2].items) : SourceRows[i][2].items[k][1] = c
  IN  i * (Cardinality(FieldKeys) + 1) + k

\* a field shows a value: its text, an integer possibly in float form
Denotes(field, v) == field = v.s \/ (v.t = "int" /\ field = v.s \o ".0")

\* C1: for an array of objects, a successful call yields a table with one row
\* per element, in the array's order, whose column set is the union of the
\* elements' keys; the file holds one line per row after the header.
C1_ArrayRowsAndColumns ==
  (Succeeded /\ ArrayOfObjects) =>
    /\ Len(df.index) = Len(Root.items)
    /\ Len(DataLines) = Len(Root.items)
    /\ {df.columns[j] : j \in 1..Len(df.columns)} = AllKeys
    /\ \A i \in 1..Len(Root.items) :
         /\ df.index[i] = Str(i - 1)
         /\ \A j \in 1..Len(df.columns) :
              IF HasKey(Root.items[i], df.columns[j])
                THEN Denotes(FormatCell(df.cells[i][j]), Get(Root.items[i], df.columns[j]))
                ELSE df.cells[i][j] = NaN

C1_Witness ==
  /\ Succeeded /\ ArrayOfObjects
  /\ Len(Root.items) >= 2
  /\ Len(df.columns) = 2
  /\ ~HasKey(Root.items[1], df.columns[2])

\* C2: for an object of objects, a successful call writes one row per outer
\* key, in the keys' order, each led by its outer key.
C2_OneRowPerOuterKey ==
  (Succeeded /\ ObjectOfObjects) =>
    /\ Len(DataLines) = Len(Root.items)
    /\ \A i \in 1..Len(Root.items) : DataLines[i][1] = Root.items[i][1]

\* C3: for an array of objects the written header is exactly the table's
\* column names and every data row has one field per column, no index column.
C3_NoSyntheticColumn ==
  (Succeeded /\ ArrayOfObjects) =>
    /\ Written[1] = df.columns
    /\ \A i \in 1..Len(DataLines) : Len(DataLines[i]) = Len(df.columns)

C5_ReturnsRowCount ==
  Succeeded => result.n = Len(DataLines)

\* C5 as amended: on success the call returns the boolean True.
C5_ReturnsTrue ==
  Succeeded => result = PyBool(TRUE)

C5_Witness ==
  Succeeded /\ Len(DataLines) = 2 /\ result = PyBool(TRUE)

\* C6: a root that is neither an array nor an object makes the call fail as an
\* unsupported format, and nothing is written at any point of the call.
C6_ScalarRootRejected ==
  ScalarRoot =>
    /\ fs = fs0
    /\ Done => (err = "unsupported_format" /\ result = PyBool(FALSE))

C6_Witness ==
  ScalarRoot /\ Done /\ err = "unsupported_format" /\ csv_file_path = GivenCsv
    /\ fs0[GivenCsv] = OldCsv

\* C7: an array with an element that is not a mapping makes the call fail
\* instead of producing a CSV.
C7_NonMappingElementRejected ==
  ArrayWithNonMapping =>
    /\ fs = fs0
    /\ Done => result = PyBool(FALSE)

\* C8: a missing input makes the call fail as not found without any attempt to
\* open the input, and nothing is written.
C8_MissingInputRejected ==
  InputMissing =>
    /\ ~opened
    /\ fs = fs0
    /\ Done => (err = "not_found" /\ result = PyBool(FALSE))

C8_Witness ==
  InputMissing /\ Done /\ err = "not_found" /\ ~opened

\* C9: text that is not JSON makes the call fail as a JSON decoding error, and
\* the destination keeps its content, or stays absent.
C9_MalformedInputRejected ==
  InputMalformed =>
    /\ fs = fs0
    /\ Done => (err = "json_decode" /\ result = PyBool(FALSE))

C9_Witness ==
  InputMalformed /\ Done /\ err = "json_decode" /\ csv_file_path = GivenCsv
    /\ fs[GivenCsv] = OldCsv

\* C10: nothing is written before the table is built, and a call that fails
\* leaves the destination as it found it.
C10_NoPartialCsvOnFailure ==
  /\ pc \in {"start", "read", "convert", "name"} => fs = fs0
  /\ (Done /\ result = PyBool(FALSE)) => fs = fs0

====
